---- MODULE Spec2Model ----
(***************************************************************************)
(* Model of bevy-rdyn-plugins: the dynamic plugin loader                   *)
(*   crates/rdyn-plugins/src/dyn_api.rs     RustDynPlugin, load_rdyn_plugin *)
(*   crates/rdyn-plugins/src/mod_loader.rs  ModLoaderExt for App            *)
(*                                                                         *)
(* The platform loader (libloading::Library) is modelled by a reference    *)
(* count per library file: Library::new raises it, dropping a Library      *)
(* lowers it, and the image of a file is mapped while the count is above   *)
(* zero.  Rust's ownership rules are modelled by what they do: a struct's  *)
(* fields are dropped in declaration order, a Vec's elements front to      *)
(* back, and a value replaced inside the host is dropped.                  *)
(*                                                                         *)
(* Every exported `_create_rdyn_plugin` is taken to have the signature     *)
(* CreateRDynPlugin (the documented precondition of load_rdyn_plugin).     *)
(* Running a plugin object's code while its image is unmapped is undefined  *)
(* behaviour: the step records the hazard and the process either dies      *)
(* there or goes on.                                                       *)
(***************************************************************************)
EXTENDS Integers, Sequences, FiniteSets

\* ------------------------------------------------------------------ bounds
\* plugin files that open and export the entry symbol
NModules == 2
\* entries one directory enumeration yields at most
MaxEntries == 3
\* handles (successful loads) created in one run of the model
MaxHandles == 2

\* ------------------------------------------------------- the file system
Modules == 1..NModules

\* A directory entry, by what the code asks of it:
\*   ok     the ReadDir iterator yielded Ok(entry)        (flatten)
\*   ftype  entry.file_type(): "file", "dir", or "unknown" for an Err
\*   text   entry.path().to_str() is Some
\*   opens  Library::new(path) succeeds
\*   sym    library.get(CREATE_RDYN_SYM_NAME) succeeds
\*   file   the file behind the entry
ModuleEntry(m) ==
    [ok |-> TRUE, ftype |-> "file", text |-> TRUE, opens |-> TRUE, sym |-> TRUE, file |-> m]

\* Entries that are not loadable modules, one for each way the scan can reject
\* a candidate.  Each is good in every respect but the one it is named for.
EntryError  == [ModuleEntry(NModules + 1) EXCEPT !.ok = FALSE]
TypeError   == [ModuleEntry(NModules + 2) EXCEPT !.ftype = "unknown"]
Directory   == [ModuleEntry(NModules + 3) EXCEPT !.ftype = "dir", !.opens = FALSE, !.sym = FALSE]
NonTextPath == [ModuleEntry(NModules + 4) EXCEPT !.text = FALSE]
WrongFormat == [ModuleEntry(NModules + 5) EXCEPT !.opens = FALSE, !.sym = FALSE]
NoSymbol    == [ModuleEntry(NModules + 6) EXCEPT !.sym = FALSE]

InvalidEntries == {EntryError, TypeError, Directory, NonTextPath, WrongFormat, NoSymbol}
Catalogue == {ModuleEntry(m) : m \in Modules} \cup InvalidEntries
Files == {e.file : e \in Catalogue}
NoEntry == [ModuleEntry(0) EXCEPT !.ok = FALSE]

\* paths a caller hands to load_mod / load_from: &str paths of regular files
Paths == {e \in Catalogue : e.ok /\ e.text /\ e.ftype = "file"}

None == 0

VARIABLES
    refs,           \* platform loader: open Library values per file
    hs,             \* every RustDynPlugin created so far, by handle id
    built,          \* the App: handles whose plugin.build(app) has run, in order
    log,            \* events of the operation in progress / last finished
    registry,       \* the ModLoaderData resource stored in the App
    held,           \* handles returned to and owned by the caller
    pc,             \* "idle", or "scan" inside load_mods' for_each
    mod_loader_data, \* the local of load_mods (its loaded_plugins)
    enumerated,     \* entries the ReadDir iterator has yielded in this scan
    op,             \* the operation the last step belonged to
    arg,            \* its path argument (an entry), NoEntry when it has none
    ret,            \* handle returned by the last load (None for Option::None)
    registered,     \* handles some scan stored in the App's registry
    crashed         \* the process died on a use of an unmapped image

vars == <<refs, hs, built, log, registry, held, pc, mod_loader_data, enumerated,
          op, arg, ret, registered, crashed>>

\* ------------------------------------------------------------- helpers
Range(s) == {s[i] : i \in 1..Len(s)}

FilesOf(s) == [i \in 1..Len(s) |-> hs[s[i]].file]

\* The mutable world an operation runs in.
World == [refs |-> refs, hs |-> hs, built |-> built, log |-> <<>>, hazard |-> FALSE]

Mapped(w, f) == w.refs[f] > 0

\* One event of the log: what happened, to which candidate (n: its position in
\* the enumeration, 0 outside a scan), file and handle, whether it succeeded,
\* whether the file's image is mapped after it, and the App as it is after it.
Emit(w, ev, n, f, h, ok) ==
    [w EXCEPT !.log = Append(@, [ev |-> ev, n |-> n, file |-> f, h |-> h, ok |-> ok,
                                 mapped |-> Mapped(w, f), app |-> w.built])]

\* ------------------------------------------------- dyn_api.rs: the loader
\* Library::new(path): map the image (dlopen); Err when it cannot be opened.
LibraryNew(w, n, e) ==
    IF e.opens
    THEN Emit([w EXCEPT !.refs[e.file] = @ + 1], "open", n, e.file, None, TRUE)
    ELSE Emit(w, "open", n, e.file, None, FALSE)

\* library.get(CREATE_RDYN_SYM_NAME): look the entry symbol up in the image.
LibraryGet(w, n, e) == Emit(w, "sym", n, e.file, None, e.sym)

\* Dropping a Library closes it (dlclose); the image is unmapped with its
\* last Library.
LibraryDrop(w, n, f, h) ==
    Emit([w EXCEPT !.refs[f] = @ - 1], "close", n, f, h, TRUE)

\* create_plugin_sym() and Some(RustDynPlugin { library, plugin }): the entry
\* point runs inside the image and its object is bundled with the Library.
CreatePlugin(w, n, e) ==
    LET h  == Len(w.hs) + 1
        w1 == [w EXCEPT !.hs = Append(@, [file |-> e.file, lib |-> "open",
                                           obj |-> "alive", forgot |-> FALSE]),
                        !.hazard = @ \/ ~Mapped(w, e.file)]
    IN  [w |-> Emit(w1, "create", n, e.file, h, Mapped(w, e.file)), ret |-> h]

\* Variants of load_rdyn_plugin with one slip each, used to show that the
\* properties below depend on it.
\*   the open error is not propagated
load_rdyn_plugin_ignores_open_error(w, n, e) ==
    LET w1 == LibraryNew(w, n, e)
        w2 == LibraryGet(w1, n, e)
    IN  IF ~e.sym THEN [w |-> LibraryDrop(w2, n, e.file, None), ret |-> None]
        ELSE CreatePlugin(w2, n, e)
\*   the Library is leaked when the symbol is missing
load_rdyn_plugin_leaks_on_missing_symbol(w, n, e) ==
    LET w1 == LibraryNew(w, n, e)
        w2 == LibraryGet(w1, n, e)
    IN  IF ~e.opens THEN [w |-> w1, ret |-> None]
        ELSE IF ~e.sym THEN [w |-> w2, ret |-> None]
        ELSE CreatePlugin(w2, n, e)
\*   the lookup error is not propagated and the symbol is called anyway
load_rdyn_plugin_ignores_missing_symbol(w, n, e) ==
    LET w1 == LibraryNew(w, n, e)
        w2 == LibraryGet(w1, n, e)
    IN  IF ~e.opens THEN [w |-> w1, ret |-> None]
        ELSE CreatePlugin(w2, n, e)

\* load_rdyn_plugin(path): each `?` returns None, dropping the locals that
\* are alive at that point.
load_rdyn_plugin(w, n, e) ==
    LET w1 == LibraryNew(w, n, e)
        w2 == LibraryGet(w1, n, e)
    IN  IF ~e.opens THEN [w |-> w1, ret |-> None]
        ELSE IF ~e.sym THEN [w |-> LibraryDrop(w2, n, e.file, None), ret |-> None]
        ELSE CreatePlugin(w2, n, e)

\* RustDynPlugin::load_from(path)
load_from(w, n, e) == load_rdyn_plugin(w, n, e)

\* Box<dyn Plugin> dropped: the destructor is reached through the object's
\* vtable, which lives in the image.
PluginDrop(w, h) ==
    LET f == w.hs[h].file
    IN  Emit([w EXCEPT !.hs[h].obj = "destroyed", !.hazard = @ \/ ~Mapped(w, f)],
             "destroy", 0, f, h, Mapped(w, f))

\* The `library` field of a RustDynPlugin dropped.
FieldLibraryDrop(w, h) ==
    LibraryDrop([w EXCEPT !.hs[h].lib = "closed"], 0, w.hs[h].file, h)

\* A RustDynPlugin dropped: its fields are dropped in declaration order,
\* `library` and then `plugin`.
RustDynPluginDrop(w, h) == PluginDrop(FieldLibraryDrop(w, h), h)

\* forget_library(&self): std::mem::forget(&self.library) consumes a shared
\* reference to the Library, not the Library: nothing about the handle
\* changes.  `forgot` only records that the call was made.
forget_library(w, h) ==
    Emit([w EXCEPT !.hs[h].forgot = TRUE], "forget", 0, w.hs[h].file, h, TRUE)

\* ------------------------------------------- mod_loader.rs: the App side
\* plugin.build(app): the object's code runs on the App and changes it.
PluginBuild(w, n, h) ==
    LET f == w.hs[h].file
    IN  Emit([w EXCEPT !.built = Append(@, h), !.hazard = @ \/ ~Mapped(w, f)],
             "build", n, f, h, Mapped(w, f))

\* load_mod with the build call left out
load_mod_without_build(w, n, e) == load_from(w, n, e)

\* App::load_mod(mod_path)
load_mod(w, n, e) ==
    LET r == load_from(w, n, e)
    IN  IF r.ret # None THEN [w |-> PluginBuild(r.w, n, r.ret), ret |-> r.ret]
        ELSE [w |-> r.w, ret |-> None]

\* .filter(|p| p.file_type().map_or(false, |f| f.is_file()))
IsFile(e) == e.ftype = "file"

\* The for_each closure with the push left out
ScanEntry_without_push(w, data, n, e) ==
    IF ~e.ok THEN [w |-> w, data |-> data, ret |-> None]
    ELSE IF ~IsFile(e) THEN [w |-> w, data |-> data, ret |-> None]
    ELSE IF ~e.text THEN [w |-> w, data |-> data, ret |-> None]
    ELSE LET r == load_mod(w, n, e)
         IN  [w |-> r.w, data |-> data, ret |-> r.ret]

\* One element of read_dir through .flatten().filter(..).for_each(..):
\* the closure's effect on the world and on mod_loader_data.
ScanEntry(w, data, n, e) ==
    IF ~e.ok THEN [w |-> w, data |-> data, ret |-> None]
    ELSE IF ~IsFile(e) THEN [w |-> w, data |-> data, ret |-> None]
    ELSE IF ~e.text THEN [w |-> w, data |-> data, ret |-> None]
    ELSE LET r == load_mod(w, n, e)
         IN  IF r.ret # None
             THEN [w |-> r.w, data |-> Append(data, r.ret), ret |-> r.ret]
             ELSE [w |-> r.w, data |-> data, ret |-> None]

\* Vec<RustDynPlugin> dropped: its elements, front to back.
RECURSIVE VecDrop(_, _)
VecDrop(w, s) ==
    IF s = <<>> THEN w ELSE VecDrop(RustDynPluginDrop(w, Head(s)), Tail(s))

\* self.insert_resource(mod_loader_data): the App holds one ModLoaderData;
\* inserting overwrites it and the value it held is dropped.
insert_resource(w, reg, data) ==
    [w   |-> IF reg.present THEN VecDrop(w, reg.plugins) ELSE w,
     reg |-> [present |-> TRUE, plugins |-> data]]

\* What a step that may have used an unmapped image does to the process.
HazardOutcomes(w) == IF w.hazard THEN BOOLEAN ELSE {FALSE}

\* ----------------------------------------------------------------- Init
Init ==
    /\ refs = [f \in Files |-> 0]
    /\ hs = <<>>
    /\ built = <<>>
    /\ log = <<>>
    /\ registry = [present |-> FALSE, plugins |-> <<>>]
    /\ held = {}
    /\ pc = "idle"
    /\ mod_loader_data = <<>>
    /\ enumerated = <<>>
    /\ op = "new"
    /\ arg = NoEntry
    /\ ret = None
    /\ registered = {}
    /\ crashed = FALSE

Commit(w) ==
    /\ refs' = w.refs
    /\ hs' = w.hs
    /\ built' = w.built
    /\ log' = w.log
    /\ crashed' \in HazardOutcomes(w)

\* -------------------------------------------------------------- actions
\* load_mods on a directory read_dir cannot list: warn, then store the
\* (empty) registry.
LoadModsUnlistable ==
    /\ pc = "idle" /\ ~crashed
    /\ LET r == insert_resource(World, registry, <<>>)
       IN  /\ Commit(r.w)
           /\ registry' = r.reg
    /\ mod_loader_data' = <<>>
    /\ enumerated' = <<>>
    /\ op' = "load_mods_unlistable"
    /\ arg' = NoEntry
    /\ ret' = None
    /\ UNCHANGED <<held, pc, registered>>

\* load_mods, up to the start of the iteration: a fresh ModLoaderData and a
\* ReadDir iterator.
LoadModsBegin ==
    /\ pc = "idle" /\ ~crashed
    /\ pc' = "scan"
    /\ mod_loader_data' = <<>>
    /\ enumerated' = <<>>
    /\ log' = <<>>
    /\ op' = "read_dir"
    /\ arg' = NoEntry
    /\ ret' = None
    /\ UNCHANGED <<refs, hs, built, registry, held, registered, crashed>>

\* The iterator yields its next entry and the chain processes it.
LoadModsStep(e) ==
    /\ pc = "scan" /\ ~crashed
    /\ Len(enumerated) < MaxEntries
    /\ \A i \in 1..Len(enumerated) : enumerated[i].file # e.file
    /\ (e.opens /\ e.sym) => Len(hs) < MaxHandles
    /\ LET r == ScanEntry([World EXCEPT !.log = log], mod_loader_data,
                          Len(enumerated) + 1, e)
       IN  /\ Commit(r.w)
           /\ mod_loader_data' = r.data
           /\ ret' = r.ret
    /\ enumerated' = Append(enumerated, e)
    /\ op' = "for_each"
    /\ arg' = e
    /\ UNCHANGED <<registry, held, pc, registered>>

\* The iterator is exhausted: mod_loader_data is moved into the App and
\* load_mods returns.
LoadModsEnd ==
    /\ pc = "scan" /\ ~crashed
    /\ LET r == insert_resource([World EXCEPT !.log = log], registry, mod_loader_data)
       IN  /\ Commit(r.w)
           /\ registry' = r.reg
    /\ registered' = registered \cup Range(mod_loader_data)
    /\ pc' = "idle"
    /\ op' = "load_mods"
    /\ arg' = NoEntry
    /\ ret' = None
    /\ mod_loader_data' = <<>>
    /\ UNCHANGED <<held, enumerated>>

\* app.load_mod(path), called by the host itself, which keeps what it gets.
LoadMod(e) ==
    /\ pc = "idle" /\ ~crashed
    /\ (e.opens /\ e.sym) => Len(hs) < MaxHandles
    /\ LET r == load_mod(World, 0, e)
       IN  /\ Commit(r.w)
           /\ ret' = r.ret
           /\ held' = IF r.ret # None THEN held \cup {r.ret} ELSE held
    /\ op' = "load_mod"
    /\ arg' = e
    /\ enumerated' = <<>>
    /\ UNCHANGED <<registry, pc, mod_loader_data, registered>>

\* RustDynPlugin::load_from(path), called by the host itself.
LoadFrom(e) ==
    /\ pc = "idle" /\ ~crashed
    /\ (e.opens /\ e.sym) => Len(hs) < MaxHandles
    /\ LET r == load_from(World, 0, e)
       IN  /\ Commit(r.w)
           /\ ret' = r.ret
           /\ held' = IF r.ret # None THEN held \cup {r.ret} ELSE held
    /\ op' = "load_from"
    /\ arg' = e
    /\ enumerated' = <<>>
    /\ UNCHANGED <<registry, pc, mod_loader_data, registered>>

\* handle.forget_library() on a handle the host owns.
ForgetLibrary(h) ==
    /\ pc = "idle" /\ ~crashed
    /\ h \in held
    /\ Commit(forget_library(World, h))
    /\ op' = "forget_library"
    /\ arg' = NoEntry
    /\ ret' = h
    /\ enumerated' = <<>>
    /\ UNCHANGED <<registry, held, pc, mod_loader_data, registered>>

\* A handle the host owns goes out of scope.
DropHandle(h) ==
    /\ pc = "idle" /\ ~crashed
    /\ h \in held
    /\ Commit(RustDynPluginDrop(World, h))
    /\ held' = held \ {h}
    /\ op' = "drop"
    /\ arg' = NoEntry
    /\ ret' = h
    /\ enumerated' = <<>>
    /\ UNCHANGED <<registry, pc, mod_loader_data, registered>>

Next ==
    \/ LoadModsUnlistable
    \/ LoadModsBegin
    \/ \E e \in Catalogue : LoadModsStep(e)
    \/ LoadModsEnd
    \/ \E e \in Paths : LoadMod(e)
    \/ \E e \in Paths : LoadFrom(e)
    \/ \E h \in held : ForgetLibrary(h)
    \/ \E h \in held : DropHandle(h)

\* A host that uses load_mods, load_mod, load_from and the handles it owns.
Spec == Init /\ [][Next]_vars

\* A host that only scans directories (the crate's `App::new().load_mods(..)`).
NextScan ==
    \/ LoadModsUnlistable
    \/ LoadModsBegin
    \/ \E e \in Catalogue : LoadModsStep(e)
    \/ LoadModsEnd

SpecScan == Init /\ [][NextScan]_vars

\* A host that loads single modules and owns the handles.
NextHandle ==
    \/ \E e \in Paths : LoadMod(e)
    \/ \E e \in Paths : LoadFrom(e)
    \/ \E h \in held : ForgetLibrary(h)
    \/ \E h \in held : DropHandle(h)

SpecHandle == Init /\ [][NextHandle]_vars

\* =================================================================== claims
\* Reading the log.
Ev(kind) == {i \in 1..Len(log) : log[i].ev = kind}
TagEv(n, kind) == {i \in Ev(kind) : log[i].n = n}
IsBuild(x) == x.ev = "build"
\* handles integrated by the operation in the log, in the order it happened
Builds == LET b == SelectSeq(log, IsBuild) IN [i \in 1..Len(b) |-> b[i].h]
IsPrefix(s, t) == Len(s) <= Len(t) /\ \A i \in 1..Len(s) : s[i] = t[i]
LoadOps == {"load_mod", "load_from"}
\* the tag of the candidate the last step handled
CurTag == IF op = "for_each" THEN Len(enumerated) ELSE 0

\* A loadable module in a scan: a regular file that is listed without error,
\* whose path is text, whose image opens and exports the entry symbol.
ValidModule(e) == e.ok /\ e.ftype = "file" /\ e.text /\ e.opens /\ e.sym
Expected == LET v == SelectSeq(enumerated, ValidModule) IN [i \in 1..Len(v) |-> v[i].file]

\* ---- C1: once forget_library() was called on a handle, dropping the handle
\* leaves the image of its library mapped.
C1_ForgetKeepsImageMapped ==
    \A h \in 1..Len(hs) :
        (hs[h].forgot /\ hs[h].lib = "closed") => refs[hs[h].file] > 0

\* ---- C2: every handle a scan stored in the registry is still in the registry
\* the host holds, with its Library open and its image mapped.
C2_RegistryEntriesPersist ==
    \A h \in registered :
        /\ h \in Range(registry.plugins)
        /\ hs[h].lib = "open" /\ hs[h].obj = "alive"
        /\ refs[hs[h].file] > 0

\* ---- C8: when a handle is dropped its object is destroyed before its Library
\* is closed, and no destructor runs in an unmapped image.
C8_ObjectDestroyedBeforeUnmap ==
    /\ \A i \in Ev("close") :
          log[i].h # None =>
              \E j \in Ev("destroy") : j < i /\ log[j].h = log[i].h
    /\ \A j \in Ev("destroy") : log[j].ok

\* What C3 says of the registry a scan assembles and of what reaches the loader.
C3_ScanResult ==
    /\ pc = "scan" => FilesOf(mod_loader_data) = Expected
    /\ op = "load_mods" => FilesOf(registry.plugins) = Expected
    /\ (pc = "scan" \/ op = "load_mods") =>
          \A i \in 1..Len(enumerated) :
              enumerated[i].ftype # "file" => \A k \in 1..Len(log) : log[k].n # i

\* ---- C3: a scan of a directory with N loadable modules and M other entries
\* always completes, its registry holds exactly the N modules' handles in the
\* order the modules were enumerated, and no entry that is not a regular file
\* reaches the loader.
C3_ScanCollectsValidModules ==
    /\ C3_ScanResult
    /\ (pc = "scan" \/ op = "load_mods") => ~crashed

\* What C7 says of the host after the scan of an unlistable directory.
C7_EmptyRegistry ==
    op = "load_mods_unlistable" =>
        /\ pc = "idle"
        /\ registry = [present |-> TRUE, plugins |-> <<>>]
        /\ Ev("open") = {} /\ Ev("create") = {} /\ Ev("build") = {}

\* ---- C7: scanning a directory that cannot be listed returns normally, loads
\* and integrates nothing, and leaves an empty registry in the host.
C7_UnlistableDirectoryScan ==
    /\ C7_EmptyRegistry
    /\ op = "load_mods_unlistable" => ~crashed

\* ---- C4: in a scan, the integration (build) of a module is complete before
\* anything is done for a later candidate (its image opened, its entry point
\* run, its build), and a later build starts from the App as the earlier left it.
C4_IntegrationBeforeNextLoad ==
    (pc = "scan" \/ op = "load_mods") =>
        /\ \A i \in Ev("create") : \A j \in 1..Len(log) :
              (log[j].n > log[i].n) =>
                  \E k \in Ev("build") : i < k /\ k < j /\ log[k].h = log[i].h
        /\ \A k \in Ev("build") : \A k2 \in Ev("build") :
              k < k2 =>
                  /\ log[k].h \in Range(log[k2 - 1].app)
                  /\ IsPrefix(log[k].app, log[k2 - 1].app)
                  /\ log[k2].app = Append(log[k2 - 1].app, log[k2].h)

C4_Witness ==
    /\ op = "load_mods"
    /\ \E k \in Ev("build") : \E k2 \in Ev("build") :
          /\ log[k].n < log[k2].n
          /\ \E j \in TagEv(log[k2].n, "open") : k < j
          /\ log[k2 - 1].app = log[k].app

\* ---- C5: when the image cannot be opened, the load returns None, the symbol
\* is neither looked up nor called, build is not called and nothing of the
\* host or of the loader's state changes.
C5_OpenFailureIsAbsent ==
    [][ (op' \in LoadOps /\ ~arg'.opens) =>
            /\ ret' = None
            /\ Len(log') = 1 /\ log'[1].ev = "open" /\ ~log'[1].ok
            /\ built' = built /\ hs' = hs /\ refs' = refs /\ held' = held
            /\ ~crashed' ]_vars

C5_Witness ==
    /\ op = "load_mod" /\ ~arg.opens /\ ret = None
    /\ Len(hs) > 0 /\ built # <<>>

\* ---- C6: when the image opens but has no `_create_rdyn_plugin`, the load
\* returns None, the entry point is not called, and the Library is closed
\* before the return: the image is not left mapped.
C6_MissingSymbolReleasesImage ==
    (op \in LoadOps /\ arg.opens /\ ~arg.sym) =>
        /\ ret = None
        /\ Ev("create") = {} /\ Ev("build") = {}
        /\ Len(log) = 3
        /\ log[1].ev = "open" /\ log[1].ok /\ log[1].mapped
        /\ log[2].ev = "sym" /\ ~log[2].ok
        /\ log[3].ev = "close" /\ log[3].file = arg.file /\ ~log[3].mapped
        /\ refs[arg.file] = 0

C6_Witness ==
    /\ op = "load_from" /\ arg.opens /\ ~arg.sym /\ ret = None
    /\ Ev("close") # {}

\* ---- C9: a load returns a handle exactly when the open and the lookup both
\* succeeded; the handle holds the open Library and the object; the entry
\* point was called once, after the lookup, in the mapped image.
C9_HandleIffOpenedAndResolved ==
    op \in LoadOps =>
        /\ (ret # None) <=>
              /\ \E i \in Ev("open") : log[i].ok
              /\ \E i \in Ev("sym") : log[i].ok
        /\ ret # None =>
              /\ ret \in 1..Len(hs)
              /\ hs[ret].file = arg.file
              /\ hs[ret].lib = "open" /\ hs[ret].obj = "alive"
              /\ refs[arg.file] > 0
              /\ Cardinality(Ev("create")) = 1
              /\ \A c \in Ev("create") :
                    /\ log[c].h = ret /\ log[c].ok /\ log[c].mapped
                    /\ \E i \in Ev("open") : \E j \in Ev("sym") :
                          i < j /\ j < c /\ log[i].ok /\ log[j].ok
        /\ ret = None => Ev("create") = {}

C9_Witness ==
    /\ op = "load_from" /\ ret # None
    /\ hs[ret].lib = "open" /\ Cardinality(Ev("create")) = 1

\* ---- C10: in a scan, build is called once for each candidate whose load
\* succeeded and for no other, and the registry holds exactly the handles that
\* were built, once each, in the order of their builds.
C10_RegistryIsWhatWasIntegrated ==
    (pc = "scan" \/ op = "load_mods") =>
        /\ pc = "scan" => mod_loader_data = Builds
        /\ op = "load_mods" => registry.plugins = Builds
        /\ \A c \in Ev("create") :
              Cardinality({k \in Ev("build") : log[k].h = log[c].h}) = 1
        /\ \A k \in Ev("build") :
              \E c \in TagEv(log[k].n, "create") : c < k /\ log[c].h = log[k].h
        /\ \A i \in 1..Len(enumerated) :
              ~ValidModule(enumerated[i]) => TagEv(i, "build") = {}
        /\ \A i \in 1..Len(Builds) : \A j \in 1..Len(Builds) :
              Builds[i] = Builds[j] => i = j

C10_Witness ==
    /\ op = "load_mods"
    /\ Len(registry.plugins) = 2
    /\ \E i \in 1..Len(enumerated) :
          /\ ~ValidModule(enumerated[i])
          /\ TagEv(i, "open") # {}
====
